---------------------------- MODULE Spec2Model ----------------------------
(***************************************************************************)
(* A model of two parts of chirho:                                         *)
(*                                                                         *)
(*  - chirho/dynamical/handlers/event_loop.py: InterruptionEventLoop, the  *)
(*    loop that discovers the next interruptions, integrates up to them    *)
(*    and applies their effects (specification Spec);                      *)
(*  - causal_pyro/indexed/internals.py: gather, scatter and indices_of on  *)
(*    tensors, numbers and partitioned values (specification SpecIndexed). *)
(***************************************************************************)
EXTENDS Integers, Sequences, FiniteSets, TLC

(***************************************************************************)
(* Bounds of the model.                                                    *)
(***************************************************************************)
\* Number of Interruption handlers installed around the simulate call.
NumHandlers == 2
\* Times (start_time, end_time, fire times) range over 0..MaxTime.
MaxTime == 3
\* Iterations of the while loop the model follows: enough to see one more
\* iteration than the NumHandlers + 1 a well-behaved solver allows.
IterCap == NumHandlers + 2
\* Sizes of the two index plates, "X" and "Y", and of an event axis.
SizeX == 3
SizeY == 2
EventSize == 2

VARIABLES
    \* ---- InterruptionEventLoop._pyro_simulate ----
    solver,                 \* msg["kwargs"]["solver"] or get_solver()
    fire,                   \* fire time of each Interruption handler
    used,                   \* Interruption.used of each handler
    msg,                    \* the simulate message: args, value, done
    start_time,             \* local start_time (the current time)
    end_time,               \* local end_time
    state,                  \* local state
    dynamics,               \* local dynamics
    terminal_interruptions, \* local terminal_interruptions
    interruption_time,      \* local interruption_time
    blocked,                \* messengers removed by the active block_messengers
    pc,                     \* position in _pyro_simulate
    \* ---- observations of the run (history variables) ----
    iters,                  \* iterations of the while loop started
    phases,                 \* phases executed in the current iteration
    usedAtEntry,            \* used flags when the first with-block was entered
    nReturned,              \* per handler: discovery phases that returned it
    nApplied,               \* per handler: effect applications
    simCalls,               \* simulate_to_interruption calls, as <<from, to>>
    prevTime,               \* start_time at the previous loop test
    firstFound,             \* what the first discovery phase returned
    solverOk,               \* every discovery so far kept the solver contract
    \* ---- one call of an indexing operation ----
    call,                   \* the operation called
    arg_value,              \* value
    arg_indexset,           \* indexset
    arg_indexset2,          \* the second indexset of a repeated gather
    arg_event_dim,          \* event_dim: {} for None, {k} for k
    arg_result,             \* result: {} for None, {t} for the tensor t
    arg_parts,              \* partitioned_values, as its items in order
    returned,               \* whether the call has returned
    ret,                    \* the value returned, or the exception raised
    ret2                    \* the same, for the other order of a repeated gather

loopVars == <<solver, fire, used, msg, start_time, end_time, state, dynamics,
              terminal_interruptions, interruption_time, blocked, pc,
              iters, phases, usedAtEntry, nReturned, nApplied, simCalls,
              prevTime, firstFound, solverOk>>

indexedVars == <<call, arg_value, arg_indexset, arg_indexset2, arg_event_dim,
                 arg_result, arg_parts, returned, ret, ret2>>

vars == <<loopVars, indexedVars>>

Times == 0..MaxTime
Interruptions == 1..NumHandlers

Min(a, b) == IF a < b THEN a ELSE b

(***************************************************************************)
(* Tensors. A tensor is a shape (the axis lengths, left to right) and the  *)
(* entry at every position; a position gives one 0-based index per axis.   *)
(* A call that raises returns a value whose tag names the exception.       *)
(***************************************************************************)
Max(a, b) == IF a > b THEN a ELSE b

RECURSIVE MaxOf(_)
MaxOf(shape) ==
    IF shape = <<>> THEN 0 ELSE Max(Head(shape), MaxOf(Tail(shape)))

Positions(shape) ==
    {p \in [1..Len(shape) -> 0..(MaxOf(shape) - 1)] :
        \A i \in 1..Len(shape) : p[i] < shape[i]}

Tensor(shape, data) == [tag |-> "tensor", shape |-> shape, data |-> data]
Raised(exception) == [tag |-> exception, shape |-> <<>>, data |-> <<>>]
NoValue == Raised("none")
IndexSetValue(indexset) == [tag |-> "IndexSet", shape |-> <<>>, data |-> indexset]
IsTensor(t) == t.tag = "tensor"

\* A Python number or bool: a value without axes.
Scalar(tag, x) == [tag |-> tag, shape |-> <<>>, data |-> [p \in {<<>>} |-> x]]

\* torch.as_tensor(value) of a number
AsTensor(value) == Tensor(<<>>, value.data)

\* value.new_zeros(shape)
NewZeros(shape) == Tensor(shape, [p \in Positions(shape) |-> 0])

\* list(sorted(indices))
RECURSIVE Sorted(_)
Sorted(s) ==
    IF s = {} THEN <<>>
    ELSE LET x == CHOOSE y \in s : \A z \in s : y <= z
         IN  <<x>> \o Sorted(s \ {x})

\* tensor.index_select(axis, idx), axis counted from 1
IndexSelect(t, axis, idx) ==
    IF \E k \in 1..Len(idx) : idx[k] >= t.shape[axis]
    THEN Raised("IndexError")
    ELSE LET shape == [t.shape EXCEPT ![axis] = Len(idx)]
         IN  Tensor(shape,
                    [p \in Positions(shape) |->
                        t.data[[p EXCEPT ![axis] = idx[p[axis] + 1]]]])

\* result[tuple(index)] = value, every axis of result indexed by its own
\* list idxs[i] (the lists are shaped to broadcast against each other):
\* value is broadcast, right-aligned, to the lengths of the lists.
IndexPut(result, idxs, value) ==
    LET r == Len(result.shape)
        rv == Len(value.shape)
        off == r - rv
        Slot(i, x) == CHOOSE k \in 1..Len(idxs[i]) : idxs[i][k] = x
    IN  IF rv > r THEN Raised("RuntimeError")
        ELSE IF \E i \in 1..r : \E k \in 1..Len(idxs[i]) :
                    idxs[i][k] >= result.shape[i]
        THEN Raised("IndexError")
        ELSE IF \E j \in 1..rv : /\ value.shape[j] # 1
                                 /\ value.shape[j] # Len(idxs[j + off])
        THEN Raised("RuntimeError")
        ELSE Tensor(result.shape,
                 [p \in Positions(result.shape) |->
                     IF \A i \in 1..r : \E k \in 1..Len(idxs[i]) : idxs[i][k] = p[i]
                     THEN value.data[[j \in 1..rv |->
                              IF value.shape[j] = 1 THEN 0
                              ELSE Slot(j + off, p[j + off]) - 1]]
                     ELSE result.data[p]])

(***************************************************************************)
(* The index-plate registry and IndexSet (causal_pyro.indexed.ops, whose   *)
(* code is not among the source files): two plates, "X" on dimension -1    *)
(* and "Y" on dimension -2. An IndexSet maps every name to its indices, a  *)
(* name it does not hold to the empty set.                                 *)
(***************************************************************************)
Names == {"X", "Y"}
NameOrder == <<"X", "Y">>
PlateDim(name) == IF name = "X" THEN -1 ELSE -2
PlateSize(name) == IF name = "X" THEN SizeX ELSE SizeY

EmptyIndexSet == [n \in Names |-> {}]
IndexSets ==
    {f \in [Names -> SUBSET (0..(Max(SizeX, SizeY) - 1))] :
        \A n \in Names : f[n] \subseteq 0..(PlateSize(n) - 1)}

\* union(*indexsets)
Union(I, J) == [n \in Names |-> I[n] \cup J[n]]

\* event_dim=None reads as the empty set, event_dim=k as {k}.
EventDimOr0(event_dim) == IF event_dim = {} THEN 0 ELSE CHOOSE k \in event_dim : TRUE

(***************************************************************************)
(* indices_of                                                              *)
(***************************************************************************)
\* An indices_of that checks event_dim the way _gather_number does.
IndicesOfScalar_Checked(value, event_dim) ==
    IF ~(event_dim = {} \/ event_dim = {0}) THEN Raised("AssertionError")
    ELSE IndexSetValue(EmptyIndexSet)

\* _indices_of_number, _indices_of_bool: IndexSet(), whatever the kwargs.
IndicesOfScalar(value, event_dim) == IndexSetValue(EmptyIndexSet)

\* _indices_of_shape, with name_to_dim read from the registry
IndicesOfShape(shape, event_dim) ==
    LET batch == SubSeq(shape, 1, Len(shape) - event_dim)
    IN  IndexSetValue(
            [n \in Names |->
                IF -PlateDim(n) <= Len(batch)
                   /\ batch[Len(batch) + PlateDim(n) + 1] > 1
                THEN 0..(batch[Len(batch) + PlateDim(n) + 1] - 1)
                ELSE {}])

\* _indices_of_tensor
IndicesOfTensor(value, event_dim) == IndicesOfShape(value.shape, event_dim)

\* indices_of(value, event_dim=...): dispatch on the type of value
IndicesOf(value, event_dim) ==
    IF value.tag \in {"number", "bool"}
    THEN IndicesOfScalar(value, event_dim)
    ELSE IndicesOfTensor(value, EventDimOr0(event_dim))

(***************************************************************************)
(* gather                                                                  *)
(***************************************************************************)
\* A gather that forgets the event axes when it locates the plate's axis.
GatherDim_NoEventDim(name, event_dim) == PlateDim(name)

\* A gather that selects along the same axis whatever the name.
GatherDim_SameAxis(name, event_dim) == -1 - event_dim

\* dim = name_to_dim[name] - event_dim
GatherDim(name, event_dim) == PlateDim(name) - event_dim

\* One pass of the loop of _gather_tensor over indexset.items()
GatherStep(result, name, indices, event_dim) ==
    LET dim == GatherDim(name, event_dim)
        r == Len(result.shape)
    IN  IF ~IsTensor(result) \/ indices = {} THEN result
        ELSE IF r < -dim \/ result.shape[r + dim + 1] = 1 THEN result
        ELSE IndexSelect(result, r + dim + 1, Sorted(indices))

RECURSIVE GatherItems(_, _, _, _)
GatherItems(result, names, indexset, event_dim) ==
    IF names = <<>> THEN result
    ELSE GatherItems(GatherStep(result, Head(names), indexset[Head(names)],
                                event_dim),
                     Tail(names), indexset, event_dim)

\* _gather_tensor
GatherTensor(value, indexset, event_dim) ==
    GatherItems(value, NameOrder, indexset, EventDimOr0(event_dim))

\* _gather_number
GatherNumber(value, indexset, event_dim) ==
    IF ~(event_dim = {} \/ event_dim = {0}) THEN Raised("AssertionError")
    ELSE GatherTensor(AsTensor(value), indexset, event_dim)

\* gather(value, indexset, event_dim=...): dispatch on the type of value
Gather(value, indexset, event_dim) ==
    IF ~IsTensor(value) /\ value.tag # "number" THEN value
    ELSE IF value.tag = "number" THEN GatherNumber(value, indexset, event_dim)
    ELSE GatherTensor(value, indexset, event_dim)

(***************************************************************************)
(* scatter                                                                 *)
(***************************************************************************)
PadLeft(shape, rank) ==
    [i \in 1..Max(rank, Len(shape)) |->
        IF i <= Max(rank, Len(shape)) - Len(shape) THEN 1
        ELSE shape[i - (Max(rank, Len(shape)) - Len(shape))]]

\* max([event_dim - f.dim for f in index_plates.values()] + [0])
PlateRank(event_dim) ==
    Max(0, Max(event_dim - PlateDim("X"), event_dim - PlateDim("Y")))

\* The shape of the result _scatter_tensor allocates: value's shape
\* broadcast to hold every plate axis, every named axis of indexset at
\* the plate's full size.
RECURSIVE SizedAxes(_, _, _, _)
SizedAxes(shape, names, indexset, event_dim) ==
    IF names = <<>> THEN shape
    ELSE LET n == Head(names)
             axis == Len(shape) + (PlateDim(n) - event_dim) + 1
         IN  SizedAxes(IF indexset[n] = {} THEN shape
                       ELSE [shape EXCEPT ![axis] = PlateSize(n)],
                       Tail(names), indexset, event_dim)

ResultShape(value, indexset, event_dim) ==
    SizedAxes(PadLeft(value.shape, PlateRank(event_dim)), NameOrder,
              indexset, event_dim)

\* The index list of axis i of result: the sorted indices of the name
\* that lives on the axis when the axis is longer than 1, else arange.
AxisIndex(result, i, indexset, event_dim) ==
    LET r == Len(result.shape)
        named == {n \in Names : /\ indexset[n] # {}
                                /\ r + (PlateDim(n) - event_dim) + 1 = i
                                /\ result.shape[i] > 1}
    IN  IF named = {} THEN [k \in 1..result.shape[i] |-> k - 1]
        ELSE Sorted(indexset[CHOOSE n \in named : TRUE])

\* indexset = union(indexset, indices_of(value, event_dim=event_dim, ...))
MergedIndexSet(indexset, value, event_dim) ==
    Union(indexset, IndicesOf(value, {event_dim}).data)

\* _scatter_tensor
ScatterTensor(value, indexset, result, event_dim) ==
    LET ev == EventDimOr0(event_dim)
        gathered == Gather(value, indexset, {ev})
        merged == MergedIndexSet(indexset, gathered, ev)
        target == IF result = {} THEN NewZeros(ResultShape(gathered, merged, ev))
                  ELSE CHOOSE t \in result : TRUE
    IN  IF ~IsTensor(gathered) THEN gathered
        ELSE IF \E n \in Names : /\ merged[n] # {}
                                 /\ Len(target.shape) < ev - PlateDim(n)
        THEN Raised("IndexError")
        ELSE IndexPut(target,
                      [i \in 1..Len(target.shape) |->
                          AxisIndex(target, i, merged, ev)],
                      gathered)

\* _scatter_number
ScatterNumber(value, indexset, result, event_dim) ==
    IF ~(event_dim = {} \/ event_dim = {0}) THEN Raised("AssertionError")
    ELSE ScatterTensor(AsTensor(value), indexset, result, event_dim)

\* scatter(value, indexset, result=..., event_dim=...): dispatch on type
Scatter(value, indexset, result, event_dim) ==
    IF value.tag = "number" THEN ScatterNumber(value, indexset, result, event_dim)
    ELSE ScatterTensor(value, indexset, result, event_dim)

\* The fold of _scatter_dict over partitioned_values.items(); result is
\* the accumulator so far ({} for None).
RECURSIVE ScatterItems(_, _, _)
ScatterItems(parts, result, event_dim) ==
    IF parts = <<>> THEN CHOOSE t \in result : TRUE
    ELSE LET next == Scatter(Head(parts).value, Head(parts).indices,
                             result, event_dim)
         IN  IF ~IsTensor(next) THEN next
             ELSE ScatterItems(Tail(parts), {next}, event_dim)

\* _scatter_dict
ScatterDict(parts, event_dim) ==
    IF Len(parts) = 0 THEN Raised("AssertionError")
    ELSE ScatterItems(parts, {}, event_dim)

(***************************************************************************)
(* The handler stack around the simulate call: the event loop itself, the  *)
(* Interruption handlers and one messenger of another kind.                *)
(***************************************************************************)
Loop == [kind |-> "InterruptionEventLoop", id |-> 0]
Other == [kind |-> "Messenger", id |-> 0]
Intr(h) == [kind |-> "Interruption", id |-> h]
Stack == {Loop, Other} \cup {Intr(h) : h \in Interruptions}

IsInterruption(m) == m.kind = "Interruption"

\* A predicate that forgets the loop's own re-entrancy.
BlockDiscovery_UsedOnly(m) == IsInterruption(m) /\ used[m.id]

\* lambda m: m is self or (isinstance(m, Interruption) and m.used)
BlockDiscovery(m) == m = Loop \/ (IsInterruption(m) /\ used[m.id])

\* lambda m: isinstance(m, Interruption) and m not in terminal_interruptions
BlockEffect(m) == IsInterruption(m) /\ m.id \notin terminal_interruptions

\* The Interruption handlers a solver operation can reach: those on the
\* stack that the active block_messengers did not remove.
LiveInterruptions(blk) == {m.id : m \in {x \in Stack \ blk : IsInterruption(x)}}

\* A state is the time integrated to and the effects applied, in order.
NoState == [t |-> -1, applied |-> <<>>]
NotFound == [terminal |-> {}, time |-> -1]
InitialState(t) == [t |-> t, applied |-> <<>>]

(***************************************************************************)
(* The solver collaborator (chirho.dynamical.internals.solver), whose code *)
(* is not among the source files: modelled from its described contract.    *)
(***************************************************************************)
\* The exact solver: the live handlers with the least fire time in
\* [t0, t1], at that time; no such handler: nothing, at t1.
NextExact(live, t0, t1) ==
    LET cand == {h \in live : t0 <= fire[h] /\ fire[h] <= t1}
        t == CHOOSE x \in {fire[h] : h \in cand} :
                 \A h \in cand : x <= fire[h]
    IN  IF cand = {} THEN {[terminal |-> {}, time |-> t1]}
        ELSE {[terminal |-> {h \in cand : fire[h] = t}, time |-> t]}

\* Any solver: some live handlers, at some time in [t0, t1].
NextAny(live, t0, t1) ==
    {[terminal |-> s, time |-> t] : s \in SUBSET live, t \in t0..t1}

GetNextInterruptions(live, t0, t1) ==
    IF solver = "exact" THEN NextExact(live, t0, t1) ELSE NextAny(live, t0, t1)

SimulateToInterruption(st, t0, t1) == [st EXCEPT !.t = t1]

RECURSIVE SeqOfSet(_)
SeqOfSet(s) ==
    IF s = {} THEN <<>>
    ELSE LET x == CHOOSE y \in s : \A z \in s : y <= z
         IN  <<x>> \o SeqOfSet(s \ {x})

\* apply_interruptions: every live Interruption applies its effect.
ApplyInterruptions(dyn, st, live) ==
    [dynamics |-> dyn \cup live,
     state |-> [st EXCEPT !.applied = @ \o SeqOfSet(live)]]

(***************************************************************************)
(* _pyro_simulate, one action per step.                                    *)
(***************************************************************************)
\* while start_time < end_time
LoopCondition == start_time < end_time

\* A loop that forgets to mark the terminal interruptions.
MarkUsed_Never == used

\* for h in terminal_interruptions: h.used = True
MarkUsed == [h \in Interruptions |->
                IF h \in terminal_interruptions THEN TRUE ELSE used[h]]

\* A loop that integrates but forgets to advance its clock.
AdvancedTime_Stale == start_time

\* start_time = interruption_time
AdvancedTime == interruption_time

Bump(f, s) == [h \in Interruptions |->
                 IF h \in s THEN Min(f[h] + 1, IterCap + 1) ELSE f[h]]

LoopTest ==
    /\ UNCHANGED indexedVars
    /\ pc = "test"
    /\ pc' = IF LoopCondition THEN "discover" ELSE "finish"
    /\ prevTime' = start_time
    /\ UNCHANGED <<solver, fire, used, msg, start_time, end_time, state,
                   dynamics, terminal_interruptions, interruption_time,
                   blocked, iters, phases, usedAtEntry, nReturned, nApplied,
                   simCalls, firstFound, solverOk>>

Discover ==
    /\ UNCHANGED indexedVars
    /\ pc = "discover"
    /\ iters < IterCap
    /\ LET blk == {m \in Stack : BlockDiscovery(m)}
       IN  /\ blocked' = blk
           /\ \E r \in GetNextInterruptions(LiveInterruptions(blk),
                                            start_time, end_time) :
                /\ terminal_interruptions' = r.terminal
                /\ interruption_time' = r.time
                /\ nReturned' = Bump(nReturned, r.terminal)
                /\ firstFound' = IF iters = 0 THEN r ELSE firstFound
                /\ solverOk' = (solverOk /\
                      (r.time < end_time =>
                          \E h \in r.terminal : ~used[h]))
    /\ usedAtEntry' = used
    /\ iters' = iters + 1
    /\ phases' = <<"discover">>
    /\ pc' = "integrate"
    /\ UNCHANGED <<solver, fire, used, msg, start_time, end_time, state,
                   dynamics, nApplied, simCalls, prevTime>>

\* The integration step of a loop whose apply_interruptions call sits
\* after the while loop instead of inside it.
Integrate_ApplyOutsideLoop ==
    /\ UNCHANGED indexedVars
    /\ pc = "integrate"
    /\ state' = SimulateToInterruption(state, start_time, interruption_time)
    /\ simCalls' = Append(simCalls, <<start_time, interruption_time>>)
    /\ start_time' = interruption_time
    /\ used' = [h \in Interruptions |->
                   IF h \in terminal_interruptions THEN TRUE ELSE used[h]]
    /\ phases' = Append(phases, "integrate")
    /\ pc' = "test"
    /\ UNCHANGED <<solver, fire, msg, end_time, dynamics,
                   terminal_interruptions, interruption_time, blocked, iters,
                   usedAtEntry, nReturned, nApplied, prevTime, firstFound,
                   solverOk>>

Integrate ==
    /\ UNCHANGED indexedVars
    /\ pc = "integrate"
    /\ state' = SimulateToInterruption(state, start_time, interruption_time)
    /\ simCalls' = Append(simCalls, <<start_time, interruption_time>>)
    /\ start_time' = AdvancedTime
    /\ used' = MarkUsed
    /\ phases' = Append(phases, "integrate")
    /\ pc' = "apply"
    /\ UNCHANGED <<solver, fire, msg, end_time, dynamics,
                   terminal_interruptions, interruption_time, blocked, iters,
                   usedAtEntry, nReturned, nApplied, prevTime, firstFound,
                   solverOk>>

Apply ==
    /\ UNCHANGED indexedVars
    /\ pc = "apply"
    /\ LET blk == {m \in Stack : BlockEffect(m)}
           r == ApplyInterruptions(dynamics, state, LiveInterruptions(blk))
       IN  /\ blocked' = blk
           /\ dynamics' = r.dynamics
           /\ state' = r.state
           /\ nApplied' = Bump(nApplied, LiveInterruptions(blk))
    /\ phases' = Append(phases, "apply")
    /\ pc' = "test"
    /\ UNCHANGED <<solver, fire, used, msg, start_time, end_time,
                   terminal_interruptions, interruption_time, iters,
                   usedAtEntry, nReturned, simCalls, prevTime, firstFound,
                   solverOk>>

Finish ==
    /\ UNCHANGED indexedVars
    /\ pc = "finish"
    /\ msg' = [msg EXCEPT !.value = state, !.done = TRUE]
    /\ blocked' = {}
    /\ pc' = "done"
    /\ UNCHANGED <<solver, fire, used, start_time, end_time, state, dynamics,
                   terminal_interruptions, interruption_time, iters, phases,
                   usedAtEntry, nReturned, nApplied, simCalls, prevTime,
                   firstFound, solverOk>>

\* The state when _pyro_simulate has unpacked msg["args"] and chosen the
\* solver. The fire times matter to the exact solver only.
LoopInit ==
    /\ solver \in {"exact", "any"}
    /\ fire \in [Interruptions -> Times]
    /\ solver = "any" => fire = [h \in Interruptions |-> 0]
    /\ used = [h \in Interruptions |-> FALSE]
    /\ start_time \in Times
    /\ end_time \in Times
    /\ msg = [start |-> start_time, end |-> end_time,
              value |-> NoState, done |-> FALSE]
    /\ state = InitialState(start_time)
    /\ dynamics = {}
    /\ terminal_interruptions = {}
    /\ interruption_time = start_time
    /\ blocked = {}
    /\ pc = "test"
    /\ iters = 0
    /\ phases = <<>>
    /\ usedAtEntry = used
    /\ nReturned = [h \in Interruptions |-> 0]
    /\ nApplied = [h \in Interruptions |-> 0]
    /\ simCalls = <<>>
    /\ prevTime = start_time
    /\ firstFound = NotFound
    /\ solverOk = TRUE

(***************************************************************************)
(* Calls of the indexing operations. The arguments are drawn from bounded  *)
(* sets: tensors whose plate axes are absent, broadcast (length 1) or of   *)
(* the plate's size, followed by event_dim event axes; every entry of a    *)
(* tensor differs from every other and from 0, so that a result shows      *)
(* where each of its entries came from.                                    *)
(***************************************************************************)
EventDims == {{}, {0}, {1}}

BatchShapes ==
    {<<>>} \cup {<<x>> : x \in {1, SizeX}}
           \cup {<<y, x>> : y \in {1, SizeY}, x \in {1, SizeX}}

EventShape(event_dim) == [i \in 1..EventDimOr0(event_dim) |-> EventSize]

ValueShapes(event_dim) == {b \o EventShape(event_dim) : b \in BatchShapes}

ResultShapes(event_dim) ==
    {<<y, x>> \o EventShape(event_dim) : y \in {1, SizeY}, x \in {1, SizeX}}

RECURSIVE Code(_, _)
Code(p, i) == IF i = 0 THEN 0 ELSE p[i] + 10 * Code(p, i - 1)

Labelled(shape, base) ==
    Tensor(shape, [p \in Positions(shape) |-> base + Code(p, Len(shape))])

TheNumber == Scalar("number", 7)
TheBool == Scalar("bool", 1)

TensorValues(event_dim) == {Labelled(s, 100) : s \in ValueShapes(event_dim)}
Values(event_dim) == TensorValues(event_dim) \cup {TheNumber}
Results(event_dim) ==
    {{}} \cup {{Labelled(s, 900)} : s \in ResultShapes(event_dim)}

Only(name, indices) == [n \in Names |-> IF n = name THEN indices ELSE {}]
FullAxis(name) == Only(name, 0..(PlateSize(name) - 1))

\* The ways to split S into k non-empty blocks, in every order.
OrderedPartitions(S, k) ==
    {q \in [1..k -> (SUBSET S) \ {{}}] :
        /\ \A i, j \in 1..k : i # j => q[i] \cap q[j] = {}
        /\ UNION {q[i] : i \in 1..k} = S}

\* Partitioned values over one plate: disjoint IndexSets that together
\* hold every index of the plate, each with a value of its own.
PartitionsOf(n) ==
    UNION {OrderedPartitions(0..(PlateSize(n) - 1), k) : k \in 1..PlateSize(n)}

PartValues(event_dim) ==
    {[i \in 1..Max(SizeX, SizeY) |-> Labelled(s, 100 * i)] :
        s \in ValueShapes(event_dim)}
    \cup (IF event_dim \in {{}, {0}}
          THEN {[i \in 1..Max(SizeX, SizeY) |-> Scalar("number", i)]}
          ELSE {})

PartitionedValues(event_dim) ==
    UNION {{[i \in 1..Len(q) |-> [indices |-> Only(n, q[i]), value |-> v[i]]] :
               q \in PartitionsOf(n), v \in PartValues(event_dim)} :
           n \in Names}

IndexedUnset ==
    /\ arg_value = NoValue
    /\ arg_indexset = EmptyIndexSet
    /\ arg_indexset2 = EmptyIndexSet
    /\ arg_event_dim = {}
    /\ arg_result = {}
    /\ arg_parts = <<>>

IndexedIdle ==
    /\ call = "none"
    /\ IndexedUnset
    /\ returned = FALSE
    /\ ret = NoValue
    /\ ret2 = NoValue

InitCall ==
    /\ returned = FALSE
    /\ ret = NoValue
    /\ ret2 = NoValue
    /\ arg_event_dim \in EventDims
    /\ \/ /\ call = "indices_of"
          /\ arg_value \in Values(arg_event_dim) \cup {TheBool}
          /\ arg_indexset = EmptyIndexSet
          /\ arg_indexset2 = EmptyIndexSet
          /\ arg_result = {}
          /\ arg_parts = <<>>
       \/ /\ call \in {"gather", "scatter_gather"}
          /\ arg_value \in Values(arg_event_dim)
          /\ arg_indexset \in IndexSets
          /\ arg_indexset2 = EmptyIndexSet
          /\ arg_result = {}
          /\ arg_parts = <<>>
       \/ /\ call = "gather_twice"
          /\ arg_value \in TensorValues(arg_event_dim)
          /\ arg_indexset \in IndexSets
          /\ arg_indexset2 \in {J \in IndexSets :
                 \A n \in Names : arg_indexset[n] \cap J[n] = {}}
          /\ arg_result = {}
          /\ arg_parts = <<>>
       \/ /\ call = "scatter"
          /\ arg_value \in Values(arg_event_dim)
          /\ arg_indexset \in IndexSets
          /\ arg_indexset2 = EmptyIndexSet
          /\ arg_result \in Results(arg_event_dim)
          /\ arg_parts = <<>>
       \/ /\ call = "scatter_dict"
          /\ arg_value = NoValue
          /\ arg_indexset = EmptyIndexSet
          /\ arg_indexset2 = EmptyIndexSet
          /\ arg_result = {}
          /\ arg_parts \in PartitionedValues(arg_event_dim)

Returns(c) ==
    /\ call = c
    /\ ~returned
    /\ returned' = TRUE
    /\ UNCHANGED <<call, arg_value, arg_indexset, arg_indexset2,
                   arg_event_dim, arg_result, arg_parts>>
    /\ UNCHANGED loopVars

\* indices_of(value, event_dim=event_dim)
CallIndicesOf ==
    /\ Returns("indices_of")
    /\ ret' = IndicesOf(arg_value, arg_event_dim)
    /\ UNCHANGED ret2

\* gather(value, indexset, event_dim=event_dim)
CallGather ==
    /\ Returns("gather")
    /\ ret' = Gather(arg_value, arg_indexset, arg_event_dim)
    /\ UNCHANGED ret2

\* gather(gather(value, I), J) and gather(gather(value, J), I)
CallGatherTwice ==
    /\ Returns("gather_twice")
    /\ ret' = Gather(Gather(arg_value, arg_indexset, arg_event_dim),
                     arg_indexset2, arg_event_dim)
    /\ ret2' = Gather(Gather(arg_value, arg_indexset2, arg_event_dim),
                      arg_indexset, arg_event_dim)

\* scatter(value, indexset, result=result, event_dim=event_dim)
CallScatter ==
    /\ Returns("scatter")
    /\ ret' = Scatter(arg_value, arg_indexset, arg_result, arg_event_dim)
    /\ UNCHANGED ret2

\* gather(scatter(value, indexset), indexset)
CallScatterGather ==
    /\ Returns("scatter_gather")
    /\ ret' = Gather(Scatter(arg_value, arg_indexset, {}, arg_event_dim),
                     arg_indexset, arg_event_dim)
    /\ UNCHANGED ret2

\* scatter(partitioned_values, event_dim=event_dim)
CallScatterDict ==
    /\ Returns("scatter_dict")
    /\ ret' = ScatterDict(arg_parts, arg_event_dim)
    /\ UNCHANGED ret2

\* No simulate call: the loop's variables at rest.
LoopIdle ==
    /\ solver = "exact"
    /\ fire = [h \in Interruptions |-> 0]
    /\ used = [h \in Interruptions |-> FALSE]
    /\ start_time = 0
    /\ end_time = 0
    /\ msg = [start |-> 0, end |-> 0, value |-> NoState, done |-> FALSE]
    /\ state = NoState
    /\ dynamics = {}
    /\ terminal_interruptions = {}
    /\ interruption_time = 0
    /\ blocked = {}
    /\ pc = "idle"
    /\ iters = 0
    /\ phases = <<>>
    /\ usedAtEntry = used
    /\ nReturned = [h \in Interruptions |-> 0]
    /\ nApplied = [h \in Interruptions |-> 0]
    /\ simCalls = <<>>
    /\ prevTime = 0
    /\ firstFound = NotFound
    /\ solverOk = TRUE

(***************************************************************************)
(* Spec: one simulate call handled by InterruptionEventLoop.               *)
(***************************************************************************)
Init == LoopInit /\ IndexedIdle

Next == LoopTest \/ Discover \/ Integrate \/ Apply \/ Finish

Spec == Init /\ [][Next]_vars

(***************************************************************************)
(* SpecIndexed: one call of an indexing operation.                         *)
(***************************************************************************)
InitIndexed == LoopIdle /\ InitCall

NextIndexed ==
    \/ CallIndicesOf
    \/ CallGather
    \/ CallGatherTwice
    \/ CallScatter
    \/ CallScatterGather
    \/ CallScatterDict

SpecIndexed == InitIndexed /\ [][NextIndexed]_vars

(***************************************************************************)
(* The event loop's claims, checked under Spec.                            *)
(***************************************************************************)
InSpan(h) == msg.start <= fire[h] /\ fire[h] <= msg.end

\* The effects applied so far are in non-decreasing order of fire time.
InFireOrder(applied) ==
    \A i, j \in 1..Len(applied) : i < j => fire[applied[i]] <= fire[applied[j]]

Occurrences(seq, x) == Cardinality({i \in 1..Len(seq) : seq[i] = x})

\* No handler is returned by two discovery phases or applied twice, and
\* with the exact solver the effects are applied in order of fire time.
AtMostOnce ==
    /\ \A h \in Interruptions : nReturned[h] <= 1 /\ nApplied[h] <= 1
    /\ solver = "exact" => InFireOrder(state.applied)

\* When the call has returned under the exact solver, handler h was
\* returned once, applied once, and the result holds its effect once.
ExactlyOnce(h) ==
    /\ nReturned[h] = 1
    /\ nApplied[h] = 1
    /\ Occurrences(msg.value.applied, h) = 1

\* C1 as stated: in one simulate call, every Interruption whose fire time
\* lies in [start_time, end_time] is returned as terminal by at most one
\* discovery phase and gets exactly one effect application, in increasing
\* order of fire time (the solver returning only handlers that are not
\* blocked).
C1_SingleFire_AnyInterval ==
    /\ AtMostOnce
    /\ (pc = "done" /\ solver = "exact") =>
           \A h \in Interruptions : InSpan(h) => ExactlyOnce(h)

\* C1 amended: the same, for a call with start_time < end_time. A call
\* with start_time = end_time runs no iteration and applies no effect.
C1_SingleFire ==
    /\ AtMostOnce
    /\ (pc = "done" /\ solver = "exact" /\ msg.start < msg.end) =>
           \A h \in Interruptions : InSpan(h) => ExactlyOnce(h)

\* A at an earlier time than B, both inside the span: the call has
\* returned after three iterations, each effect applied once, A before B.
C1_Witness ==
    /\ pc = "done" /\ solver = "exact"
    /\ msg.start < fire[1] /\ fire[1] < fire[2] /\ fire[2] < msg.end
    /\ iters = 3
    /\ msg.value.applied = <<1, 2>>
    /\ nReturned[1] = 1 /\ nReturned[2] = 1

NothingBeforeEnd ==
    /\ msg.start < msg.end
    /\ firstFound = [terminal |-> {}, time |-> msg.end]

\* C2: when start_time < end_time and the first discovery reports nothing
\* before end_time (no terminal interruption, time = end_time), the loop
\* integrates exactly once, from start_time to end_time, leaves the loop
\* with the current time at end_time, and publishes the state as the
\* message's value with done set.
C2_TerminatesWithoutInterruptions ==
    NothingBeforeEnd =>
        /\ iters = 1
        /\ pc \in {"test", "finish", "done"} =>
               /\ simCalls = << <<msg.start, msg.end>> >>
               /\ start_time >= end_time
               /\ state.applied = <<>>
        /\ pc = "done" =>
               /\ msg.done
               /\ msg.value = state
               /\ msg.value.t = msg.end

C2_Witness ==
    /\ NothingBeforeEnd
    /\ pc = "done"
    /\ msg.done
    /\ Len(simCalls) = 1

IterationPhases == <<"discover", "integrate", "apply">>

IsPrefix(s, t) == Len(s) <= Len(t) /\ s = SubSeq(t, 1, Len(s))

\* C3: every iteration runs discovery, integration and effect application
\* in that order, each once and none left out, one iteration after the
\* other, and the current time never decreases from one iteration to the
\* next (the solver returning a time in [current time, end_time]).
C3_PhaseOrder ==
    /\ IsPrefix(phases, IterationPhases)
    /\ pc = "integrate" => phases = <<"discover">>
    /\ pc = "apply" => phases = <<"discover", "integrate">>
    /\ (pc \in {"test", "discover", "finish", "done"} /\ iters > 0) =>
           phases = IterationPhases
    /\ iters = 0 => phases = <<>>
    /\ Len(simCalls) = (IF pc = "integrate" THEN iters - 1 ELSE iters)
    /\ prevTime <= start_time
    /\ \A i \in 1..Len(simCalls) :
           /\ simCalls[i][1] <= simCalls[i][2]
           /\ i > 1 => simCalls[i][1] = simCalls[i - 1][2]

C3_Witness ==
    /\ iters = 2 /\ pc = "test"
    /\ phases = IterationPhases
    /\ Len(simCalls) = 2
    /\ simCalls[1][2] < simCalls[2][2]

UsedHandlers(u) == {Intr(h) : h \in {x \in Interruptions : u[x]}}

\* C9: while the first block is in force (discovery and integration) the
\* blocked messengers are exactly the event loop and the Interruptions
\* whose used flag was set when it was entered; in the effect phase they
\* are exactly the Interruptions outside this iteration's terminal set, so
\* the interruptions that just fired, and only they, are live, although
\* they are marked used by then.
C9_SuppressionSets ==
    /\ pc \in {"integrate", "apply"} =>
           blocked = {Loop} \cup UsedHandlers(usedAtEntry)
    /\ (pc = "test" /\ iters > 0) =>
           /\ blocked = {Intr(h) : h \in Interruptions \ terminal_interruptions}
           /\ LiveInterruptions(blocked) = terminal_interruptions
           /\ \A h \in terminal_interruptions : used[h]
           /\ Loop \notin blocked /\ Other \notin blocked

C9_Witness ==
    /\ pc = "test" /\ iters = 2
    /\ terminal_interruptions = {2}
    /\ used[1] /\ used[2]
    /\ blocked = {Intr(1)}

\* C10: with NumHandlers Interruption handlers and a solver that returns
\* a time in [current time, end_time], and a time before end_time only
\* together with a handler that is not used, the loop starts at most
\* NumHandlers + 1 iterations, and after that many it leaves the loop;
\* this holds also when an interruption fires at the current time.
C10_BoundedIterations ==
    solverOk =>
        /\ iters <= NumHandlers + 1
        /\ (iters = NumHandlers + 1 /\ pc = "test") => ~LoopCondition
        /\ Cardinality({h \in Interruptions : used[h]}) >= iters - 1

\* Every handler fires alone, the first at the start time itself.
C10_Witness ==
    /\ solverOk /\ pc = "done"
    /\ iters = NumHandlers + 1
    /\ simCalls[1] = <<msg.start, msg.start>>
    /\ \A h \in Interruptions : used[h]

(***************************************************************************)
(* The indexing operations' claims, checked under SpecIndexed.             *)
(***************************************************************************)
\* The entry of t that broadcasting places at position p of a tensor of
\* rank r (t right-aligned, its axes of length 1 repeated).
At(t, p, r) ==
    t.data[[j \in 1..Len(t.shape) |->
               IF t.shape[j] = 1 THEN 0 ELSE p[j + r - Len(t.shape)]]]

\* Whether t broadcasts, right-aligned, into the shape.
FitsInto(t, shape) ==
    /\ Len(t.shape) <= Len(shape)
    /\ \A j \in 1..Len(t.shape) :
           t.shape[j] \in {1, shape[j + Len(shape) - Len(t.shape)]}

\* a == b element-wise, as torch compares tensors: broadcast against each
\* other, every pair of entries equal.
BroadcastShape(a, b) ==
    LET r == Max(Len(a.shape), Len(b.shape))
        sa == PadLeft(a.shape, r)
        sb == PadLeft(b.shape, r)
    IN  [i \in 1..r |-> Max(sa[i], sb[i])]

ElementwiseEqual(a, b) ==
    /\ IsTensor(a) /\ IsTensor(b)
    /\ FitsInto(a, BroadcastShape(a, b))
    /\ FitsInto(b, BroadcastShape(a, b))
    /\ \A p \in Positions(BroadcastShape(a, b)) :
           At(a, p, Len(BroadcastShape(a, b))) = At(b, p, Len(BroadcastShape(a, b)))

EventDim == EventDimOr0(arg_event_dim)

\* The axis of a tensor of rank r on which the plate of the name lives.
AxisOf(name, r) == r + PlateDim(name) - EventDim + 1

\* C4: for every tensor v and every index set I that fully covers one
\* named axis (I = {name: {0..n-1}}, n the plate's size),
\* gather(scatter(v, I), I) equals v element-wise.
C4_GatherScatterInverse ==
    (/\ call = "scatter_gather" /\ returned
     /\ IsTensor(arg_value)
     /\ \E n \in Names : arg_indexset = FullAxis(n)) =>
        ElementwiseEqual(ret, arg_value)

C4_Witness ==
    /\ call = "scatter_gather" /\ returned
    /\ arg_indexset = FullAxis("X")
    /\ arg_event_dim = {1}
    /\ arg_value.shape = <<SizeY, SizeX, EventSize>>
    /\ ret = arg_value

\* C7 as stated: indices_of on a number or a boolean fails with an error
\* whenever event_dim is given and is not 0; it returns no IndexSet then.
C7_IndicesOfRejectsEventDim ==
    (/\ call = "indices_of" /\ returned
     /\ arg_value.tag \in {"number", "bool"}
     /\ arg_event_dim \notin {{}, {0}}) =>
        ret.tag \notin {"IndexSet", "tensor"}

\* C7 amended: indices_of on a number or a boolean returns the empty
\* IndexSet for every event_dim and raises nothing; the check that
\* event_dim is 0 or absent is gather's and scatter's: called on a number,
\* each fails with an assertion error exactly when event_dim is given and
\* is not 0.
C7_EventDimCheckedByGatherAndScatter ==
    /\ (/\ call = "indices_of" /\ returned
        /\ arg_value.tag \in {"number", "bool"}) =>
           ret = IndexSetValue(EmptyIndexSet)
    /\ (/\ call \in {"gather", "scatter"} /\ returned
        /\ arg_value.tag = "number") =>
           (ret.tag = "AssertionError" <=> arg_event_dim \notin {{}, {0}})

C7_Witness ==
    /\ call = "indices_of" /\ returned
    /\ arg_value = TheBool
    /\ arg_event_dim = {1}
    /\ ret = IndexSetValue(EmptyIndexSet)

Disjoint(I, J) == \A n \in Names : I[n] \cap J[n] = {}
DistinctNames(I, J) == \A n \in Names : I[n] = {} \/ J[n] = {}

\* C8 as stated: for every tensor v and every two disjoint index sets I
\* and J (no name carries a common index in both; I and J may select
\* different indices of the same name),
\* gather(gather(v, I), J) equals gather(gather(v, J), I).
C8_GatherCommutes_Disjoint ==
    (/\ call = "gather_twice" /\ returned
     /\ Disjoint(arg_indexset, arg_indexset2)) =>
        ret = ret2

\* C8 amended: the same for index sets I and J that have no name in
\* common.
C8_GatherCommutes_DistinctNames ==
    (/\ call = "gather_twice" /\ returned
     /\ DistinctNames(arg_indexset, arg_indexset2)) =>
        /\ IsTensor(ret)
        /\ ret = ret2

C8_Witness ==
    /\ call = "gather_twice" /\ returned
    /\ arg_value.shape = <<SizeY, SizeX>>
    /\ arg_indexset = Only("X", {0, 2})
    /\ arg_indexset2 = Only("Y", {1})
    /\ ret.shape = <<1, 2>>
    /\ ret = ret2

\* The plate a partitioned value is split over, and the part that holds
\* index k of it.
PartAxis == CHOOSE n \in Names : arg_parts[1].indices[n] # {}
PartHolding(k) ==
    CHOOSE i \in 1..Len(arg_parts) : k \in arg_parts[i].indices[PartAxis]

\* C5: for every non-empty mapping of pairwise disjoint IndexSets whose
\* union holds every index 0..n-1 of the plate (parts of two or more
\* indices, not contiguous or not starting at 0, included), scatter of
\* the mapping returns a tensor whose entry at each position k of the
\* plate's axis is the value supplied under the part that holds k.
C5_PartitionedScatterCoverage ==
    (call = "scatter_dict" /\ returned) =>
        /\ IsTensor(ret)
        /\ ret.shape[AxisOf(PartAxis, Len(ret.shape))] = PlateSize(PartAxis)
        /\ \A i \in 1..Len(arg_parts) : FitsInto(arg_parts[i].value, ret.shape)
        /\ \A p \in Positions(ret.shape) :
               ret.data[p] =
                   At(arg_parts[PartHolding(p[AxisOf(PartAxis, Len(ret.shape))])].value,
                      p, Len(ret.shape))

\* Position p of a tensor of the given shape is addressed by the index
\* set: on every axis of a name of the index set that is longer than 1,
\* p holds one of the name's indices.
Addressed(p, shape, indexset) ==
    \A n \in Names :
        (indexset[n] # {} /\ shape[AxisOf(n, Len(shape))] > 1) =>
            p[AxisOf(n, Len(shape))] \in indexset[n]

\* The value is one the accumulator can take: a tensor, or a number with
\* event_dim 0 or absent, that broadcasts into the accumulator's shape.
FitsAccumulator ==
    /\ arg_value.tag = "number" => arg_event_dim \in {{}, {0}}
    /\ \A t \in arg_result : FitsInto(arg_value, t.shape)

\* C6: scatter(value, I, result=result) writes value's content at exactly
\* the positions of result that I addresses and leaves every other
\* position of result as it was; without result, the new tensor has the
\* plate's full size on every named axis of I and is zero at every
\* position I does not address.
C6_ScatterFrame ==
    (call = "scatter" /\ returned /\ FitsAccumulator) =>
        /\ IsTensor(ret)
        /\ FitsInto(arg_value, ret.shape)
        /\ \A t \in arg_result : ret.shape = t.shape
        /\ arg_result = {} =>
               \A n \in Names : arg_indexset[n] # {} =>
                   ret.shape[AxisOf(n, Len(ret.shape))] = PlateSize(n)
        /\ \A p \in Positions(ret.shape) :
               ret.data[p] =
                   IF Addressed(p, ret.shape, arg_indexset)
                   THEN At(arg_value, p, Len(ret.shape))
                   ELSE IF arg_result = {} THEN 0
                   ELSE (CHOOSE t \in arg_result : TRUE).data[p]

=============================================================================
